---- MODULE Spec2Model ----
(***************************************************************************)
(* Model of the Salt plugin modules of this repository:                    *)
(*   salt/states/blockdev.py        tuned, formatted, _checkblk            *)
(*   salt/states/mssql_database.py  present, absent                        *)
(*   salt/modules/cimc.py           the set_* and update functions,        *)
(*                                  activate_backup_image, get_hostname    *)
(*   salt/modules/mattermost.py     post_message                           *)
(* The host registries (__salt__, __proxy__, __opts__) are the boundary of *)
(* the model: what an execution function returns and what it does to the   *)
(* device or the server is chosen nondeterministically at every call.      *)
(***************************************************************************)
EXTENDS Integers, Sequences, FiniteSets, TLC

VARIABLES
    dev,        \* the block device: kind, filesystem type, blockdev flags
    db,         \* per connection: does the database exist on that server
    pc,         \* "new" before the first call, "idle" after a call has ended,
                \* "polling" inside formatted's re-check loop
    poll,       \* loop counter and number of sleeps of formatted's loop
    call,       \* the function under call and its arguments (__opts__["test"] included)
    ret,        \* the dictionary the last call returned
    exc,        \* the exception the last call raised, "" when it returned
    calls,      \* the __salt__ functions the last call invoked, in order
    pre,        \* dev and db as they were when the last call began
    first,      \* whether a call came before the last one, and whether it succeeded
    proxy,      \* the cimc.set_config_modify calls it made, in order
    reported,   \* what the apply function (or the proxy read) the last call
                \* invoked returned
    config,     \* the minion configuration __salt__["config.get"] reads
    queries,    \* the salt.utils.mattermost.query calls the last call made, in order
    value       \* what the last call of an execution function returned

vars == <<dev, db, pc, poll, call, ret, exc, calls, pre, first, proxy,
          reported, config, queries, value>>

----------------------------------------------------------------------------
(* Python values, as far as the code tells them apart.                     *)

PyNone == [t |-> "none", b |-> FALSE, s |-> "", n |-> 0]
PyBool(b) == [t |-> "bool", b |-> b, s |-> "", n |-> 0]
PyStr(s) == [t |-> "str", b |-> FALSE, s |-> s, n |-> 0]
PyInt(n) == [t |-> "int", b |-> FALSE, s |-> "", n |-> n]

\* bool(v): what `if v:` and `not v` test
Truthy(v) ==
    CASE v.t = "none" -> FALSE
      [] v.t = "bool" -> v.b
      [] v.t = "str" -> v.s # ""
      [] v.t = "int" -> v.n # 0

\* `not v`
PyNot(v) == PyBool(~Truthy(v))

\* isinstance(v, bool)
IsBool(v) == v.t = "bool"

\* str(v), as an f-string or str.format renders it
Fmt(v) ==
    CASE v.t = "none" -> "None"
      [] v.t = "bool" -> (IF v.b THEN "True" ELSE "False")
      [] v.t = "str" -> v.s
      [] v.t = "int" -> ToString(v.n)

EmptyDict == [k \in {} |-> ""]
IsEmpty(d) == DOMAIN d = {}

----------------------------------------------------------------------------
(* Bounds and domains.                                                     *)

MaxKwargs == 1

Name == "/dev/sdb1"
DbName == "yolo"

Kinds == {"missing", "file", "blk"}
FsStates == {"", "ext4", "xfs"}
FsTypes == {"ext4", "xfs", "zzfs"}
MkfsTools == {"ext4", "xfs"}
Conns == {"default", "other"}

FlagStates == [getra : {"256", "1024"}, getfra : {"256", "1024"}, getro : {"0", "1"}]
DefaultFlags == [getra |-> "256", getfra |-> "256", getro |-> "0"]

Keys == {"read-ahead", "filesystem-read-ahead", "read-only", "read-write", "unknown-option"}
DeclVals == {PyBool(TRUE), PyBool(FALSE), PyStr("1024")}
KwargSets ==
    UNION {[S -> DeclVals] : S \in {T \in SUBSET Keys : Cardinality(T) <= MaxKwargs}}

NoRet == [changes |-> EmptyDict, comment |-> "", name |-> "", result |-> PyNone]
NoCall == [fn |-> "", test |-> FALSE, kwargs |-> EmptyDict, fs_type |-> "", conn |-> ""]
NoFirst == [valid |-> FALSE, ok |-> FALSE]

Ext == [dev |-> dev, db |-> db]

\* a call of a __salt__ function, with the connection it is made on
SaltCall(f, c) == [f |-> f, conn |-> c]

ApplyFns == {"disk.tune", "disk.format", "mssql.db_create", "mssql.db_remove"}

----------------------------------------------------------------------------
(* blockdev.tuned                                                          *)

kwarg_map ==
    ("read-ahead" :> "getra") @@ ("filesystem-read-ahead" :> "getfra") @@
    ("read-only" :> "getro") @@ ("read-write" :> "getro")

\* __salt__["file.is_blkdev"]: the registry entry itself (a function object),
\* which the condition tests without calling it
FileIsBlkdevEntry == PyBool(TRUE)

\* disk.dump(name): the flags of a block device, a false value for anything else
DiskDump(d) == IF d.kind = "blk" THEN d.flags ELSE EmptyDict

\* disk.tune(name, **kwargs) may return a false value or any dump
TuneResults == {EmptyDict} \cup FlagStates

TunedBranchNoTest(test) ==
    IF ~Truthy(FileIsBlkdevEntry) THEN "notblk" ELSE "apply"

\* which arm of the if / elif / else the call takes
TunedBranch(test) ==
    IF ~Truthy(FileIsBlkdevEntry) THEN "notblk"
    ELSE IF test THEN "test"
    ELSE "apply"

\* the keys of kwargs the loop looks at
TunedKeys(kwargs) == DOMAIN kwargs \cap DOMAIN kwarg_map

\* current[switch] or changes[switch] fails on a false or empty result
TunedRaises(kwargs, current, changes) ==
    \E key \in TunedKeys(kwargs) :
        kwarg_map[key] \notin DOMAIN current \/ kwarg_map[key] \notin DOMAIN changes

\* old (or new) as reported for one key, from the flag before (or after)
TunedOld(key, val, flag) ==
    LET old == IF IsBool(val) THEN PyBool(flag = "1") ELSE PyStr(flag)
    IN IF key = "read-write" THEN PyNot(old) ELSE old

TunedChangeset(kwargs, current, changes) ==
    LET changed == {key \in TunedKeys(kwargs) :
                        current[kwarg_map[key]] # changes[kwarg_map[key]]}
    IN [key \in changed |->
            "Changed from " \o Fmt(TunedOld(key, kwargs[key], current[kwarg_map[key]]))
            \o " to " \o Fmt(TunedOld(key, kwargs[key], changes[kwarg_map[key]]))]

TunedInit == [changes |-> EmptyDict, comment |-> "", name |-> Name, result |-> PyBool(TRUE)]

TunedRet(kwargs, current, changes) ==
    IF ~IsEmpty(changes)
    THEN IF ~IsEmpty(TunedChangeset(kwargs, current, changes))
         THEN [TunedInit EXCEPT
                  !.comment = "Block device " \o Name \o " successfully modified ",
                  !.changes = TunedChangeset(kwargs, current, changes)]
         ELSE [TunedInit EXCEPT
                  !.comment = "Block device " \o Name \o " already in correct state"]
    ELSE [TunedInit EXCEPT
             !.comment = "Failed to modify block device " \o Name,
             !.result = PyBool(FALSE)]

\* a call can begin when none is under way
CanCall(fn) == call.fn = fn /\ pc \in {"new", "idle"}

\* what a call records about the call before it
Remember ==
    IF pc = "idle"
    THEN [valid |-> TRUE, ok |-> exc = "" /\ ret.result = PyBool(TRUE)]
    ELSE NoFirst

Tuned(out) ==
    LET kwargs == call.kwargs
        current == DiskDump(dev)
    IN /\ CanCall("tuned")
       /\ pre' = Ext
       /\ first' = Remember
       /\ pc' = "idle"
       /\ UNCHANGED <<db, poll, call, proxy, config, queries, value>>
       /\ CASE TunedBranch(call.test) = "notblk" ->
                 /\ ret' = [TunedInit EXCEPT !.comment =
                        "Changes to " \o Name \o " cannot be applied. Not a block device. "]
                 /\ exc' = ""
                 /\ calls' = <<>>
                 /\ reported' = PyNone
                 /\ UNCHANGED dev
            [] TunedBranch(call.test) = "test" ->
                 /\ ret' = [TunedInit EXCEPT
                        !.comment = "Changes to " \o Name \o " will be applied ",
                        !.result = PyNone]
                 /\ exc' = ""
                 /\ calls' = <<>>
                 /\ reported' = PyNone
                 /\ UNCHANGED dev
            [] TunedBranch(call.test) = "apply" ->
                 /\ calls' = <<SaltCall("disk.dump", ""), SaltCall("disk.tune", "")>>
                 /\ dev' = IF IsEmpty(out) THEN dev ELSE [dev EXCEPT !.flags = out]
                 /\ reported' = out
                 /\ IF TunedRaises(kwargs, current, out)
                    THEN ret' = NoRet /\ exc' = "LookupError"
                    ELSE ret' = TunedRet(kwargs, current, out) /\ exc' = ""

----------------------------------------------------------------------------
(* blockdev.formatted and _checkblk                                        *)

MaxPolls == 10

\* os.path.exists(name)
PathExists(d) == d.kind # "missing"

\* blkid's TYPE value, "" when it prints nothing
Checkblk(d) == IF d.fs = "" THEN "" ELSE d.fs

\* salt.utils.path.which("mkfs." + fs_type)
Which(fs_type) == fs_type \in MkfsTools

FormattedBranchTestFirst(exists, current_fs, fs_type, test) ==
    IF test THEN "test"
    ELSE IF ~exists THEN "missing"
    ELSE IF current_fs = fs_type THEN "already"
    ELSE IF ~Which(fs_type) THEN "invalid"
    ELSE "format"

\* the early returns, in the order the code makes them
FormattedBranch(exists, current_fs, fs_type, test) ==
    IF ~exists THEN "missing"
    ELSE IF current_fs = fs_type THEN "already"
    ELSE IF ~Which(fs_type) THEN "invalid"
    ELSE IF test THEN "test"
    ELSE "format"

FormattedInit(fs_type) ==
    [changes |-> EmptyDict,
     comment |-> Name \o " already formatted with " \o fs_type,
     name |-> Name,
     result |-> PyBool(FALSE)]

Blkid == SaltCall("cmd.run", "")

FormattedCall ==
    LET fs_type == call.fs_type
        b == FormattedBranch(PathExists(dev), Checkblk(dev), fs_type, call.test)
        r0 == FormattedInit(fs_type)
    IN /\ CanCall("formatted")
       /\ pre' = Ext
       /\ first' = Remember
       /\ exc' = ""
       /\ UNCHANGED <<dev, db, call, proxy, config, queries, value>>
       /\ reported' = PyNone
       /\ poll' = [i |-> 0, sleeps |-> 0]
       /\ CASE b = "missing" ->
                 /\ ret' = [r0 EXCEPT !.comment = Name \o " does not exist"]
                 /\ calls' = <<>>
                 /\ pc' = "idle"
            [] b = "already" ->
                 /\ ret' = [r0 EXCEPT !.result = PyBool(TRUE)]
                 /\ calls' = <<Blkid>>
                 /\ pc' = "idle"
            [] b = "invalid" ->
                 /\ ret' = [r0 EXCEPT !.comment = "Invalid fs_type: " \o fs_type,
                                      !.result = PyBool(FALSE)]
                 /\ calls' = <<Blkid>>
                 /\ pc' = "idle"
            [] b = "test" ->
                 /\ ret' = [r0 EXCEPT !.comment = "Changes to " \o Name \o " will be applied ",
                                      !.result = PyNone]
                 /\ calls' = <<Blkid>>
                 /\ pc' = "idle"
            [] b = "format" ->
                 /\ ret' = NoRet
                 /\ calls' = <<Blkid, SaltCall("disk.format", "")>>
                 /\ pc' = "polling"

\* the value put under "old" of the changes of a successful format:
\* current_fs, which the loop has just reassigned
FormattedOld(before, current_fs) == current_fs

PollBranchNoBreak(current_fs, fs_type, i) ==
    IF current_fs = fs_type THEN "formatted"
    ELSE IF i + 1 < MaxPolls THEN "again"
    ELSE "exhausted"

\* what one pass of the loop does after its check: return success, sleep and
\* go round again, sleep and fall out of the loop after the last pass, or break
PollBranch(current_fs, fs_type, i) ==
    IF current_fs = fs_type THEN "formatted"
    ELSE IF current_fs # "" THEN "break"
    ELSE IF i + 1 < MaxPolls THEN "again"
    ELSE "exhausted"

\* one pass of `for i in range(10)`; seen is what blkid reports in this pass
FormattedPoll(seen) ==
    LET fs_type == call.fs_type
        current_fs == Checkblk([dev EXCEPT !.fs = seen])
        b == PollBranch(current_fs, fs_type, poll.i)
        failed == [FormattedInit(fs_type) EXCEPT
                      !.comment = "Failed to format " \o Name,
                      !.result = PyBool(FALSE)]
    IN /\ pc = "polling"
       /\ poll.i < MaxPolls
       /\ dev' = [dev EXCEPT !.fs = seen]
       /\ calls' = Append(calls, Blkid)
       /\ UNCHANGED <<db, call, pre, first, exc, proxy, reported, config, queries, value>>
       /\ CASE b = "formatted" ->
                 /\ ret' = [FormattedInit(fs_type) EXCEPT
                               !.comment = Name \o " has been formatted with " \o fs_type,
                               !.changes = [new |-> fs_type,
                                            old |-> FormattedOld(Checkblk(pre.dev), current_fs)],
                               !.result = PyBool(TRUE)]
                 /\ pc' = "idle"
                 /\ poll' = [poll EXCEPT !.i = @ + 1]
            [] b = "again" ->
                 /\ ret' = ret
                 /\ pc' = "polling"
                 /\ poll' = [i |-> poll.i + 1,
                             sleeps |-> IF current_fs = "" THEN poll.sleeps + 1 ELSE poll.sleeps]
            [] b = "exhausted" ->
                 /\ ret' = failed
                 /\ pc' = "idle"
                 /\ poll' = [i |-> poll.i + 1,
                             sleeps |-> IF current_fs = "" THEN poll.sleeps + 1 ELSE poll.sleeps]
            [] b = "break" ->
                 /\ ret' = failed
                 /\ pc' = "idle"
                 /\ poll' = [poll EXCEPT !.i = @ + 1]

----------------------------------------------------------------------------
(* mssql_database.present and absent                                       *)

\* mssql.db_exists(name, **kwargs) on the connection kwargs name
DbExists(c) == db[c]

\* mssql.db_create returns True or an error string
CreateResults == {PyBool(TRUE), PyStr("Could not create the database: error")}
\* mssql.db_remove returns a true or a false value
RemoveResults == {PyBool(TRUE), PyBool(FALSE)}

PresentBranchTestFirst(exists, test) ==
    IF test THEN "test" ELSE IF exists THEN "already" ELSE "create"

PresentBranch(exists, test) ==
    IF exists THEN "already" ELSE IF test THEN "test" ELSE "create"

\* the connection the existence check of absent is made on: it passes no kwargs
AbsentCheckConn(conn) == "default"

AbsentBranchNoTest(exists, test) ==
    IF ~exists THEN "already" ELSE "remove"

AbsentBranch(exists, test) ==
    IF ~exists THEN "already" ELSE IF test THEN "test" ELSE "remove"

DbInitNoResult == [name |-> DbName, changes |-> EmptyDict, result |-> PyNone, comment |-> ""]

DbInit == [name |-> DbName, changes |-> EmptyDict, result |-> PyBool(TRUE), comment |-> ""]

Present(db_created, effect) ==
    LET conn == call.conn
        b == PresentBranch(DbExists(conn), call.test)
    IN /\ CanCall("present")
       /\ pre' = Ext
       /\ first' = Remember
       /\ exc' = ""
       /\ pc' = "idle"
       /\ UNCHANGED <<dev, poll, call, proxy, config, queries, value>>
       /\ CASE b = "already" ->
                 /\ ret' = [DbInit EXCEPT !.comment = "Database " \o DbName \o
                        " is already present (Not going to try to set its options)"]
                 /\ calls' = <<SaltCall("mssql.db_exists", conn)>>
                 /\ reported' = PyNone
                 /\ UNCHANGED db
            [] b = "test" ->
                 /\ ret' = [DbInit EXCEPT !.result = PyNone,
                        !.comment = "Database " \o DbName \o " is set to be added"]
                 /\ calls' = <<SaltCall("mssql.db_exists", conn)>>
                 /\ reported' = PyNone
                 /\ UNCHANGED db
            [] b = "create" ->
                 /\ calls' = <<SaltCall("mssql.db_exists", conn),
                               SaltCall("mssql.db_create", conn)>>
                 /\ db' = IF effect THEN [db EXCEPT ![conn] = TRUE] ELSE db
                 /\ reported' = db_created
                 /\ ret' = IF db_created # PyBool(TRUE)
                           THEN [DbInit EXCEPT !.result = PyBool(FALSE),
                                    !.comment = "Database " \o DbName \o
                                        " failed to be created: " \o Fmt(db_created)]
                           ELSE [DbInit EXCEPT
                                    !.comment = "Database " \o DbName \o " has been added",
                                    !.changes = (DbName :> "Present")]

Absent(removed, effect) ==
    LET conn == call.conn
        b == AbsentBranch(DbExists(AbsentCheckConn(conn)), call.test)
    IN /\ CanCall("absent")
       /\ pre' = Ext
       /\ first' = Remember
       /\ exc' = ""
       /\ pc' = "idle"
       /\ UNCHANGED <<dev, poll, call, proxy, config, queries, value>>
       /\ CASE b = "already" ->
                 /\ ret' = [DbInit EXCEPT
                        !.comment = "Database " \o DbName \o " is not present"]
                 /\ calls' = <<SaltCall("mssql.db_exists", AbsentCheckConn(conn))>>
                 /\ reported' = PyNone
                 /\ UNCHANGED db
            [] b = "test" ->
                 /\ ret' = [DbInit EXCEPT !.result = PyNone,
                        !.comment = "Database " \o DbName \o " is set to be removed"]
                 /\ calls' = <<SaltCall("mssql.db_exists", AbsentCheckConn(conn))>>
                 /\ reported' = PyNone
                 /\ UNCHANGED db
            [] b = "remove" ->
                 /\ calls' = <<SaltCall("mssql.db_exists", AbsentCheckConn(conn)),
                               SaltCall("mssql.db_remove", conn)>>
                 /\ db' = IF effect THEN [db EXCEPT ![conn] = FALSE] ELSE db
                 /\ reported' = removed
                 /\ ret' = IF Truthy(removed)
                           THEN [DbInit EXCEPT
                                    !.comment = "Database " \o DbName \o " has been removed",
                                    !.changes = (DbName :> "Absent")]
                           ELSE [DbInit EXCEPT !.result = PyBool(FALSE),
                                    !.comment = "Database " \o DbName \o " failed to be removed"]

----------------------------------------------------------------------------
(* cimc: the functions that check their parameters before the proxy call   *)

MaxDelay == 2

StrVals == {PyNone, PyStr(""), PyStr("x")}
OptVals == {PyNone, PyStr("x")}
UidVals == {PyNone, PyInt(0), PyInt(11)}
LevelVals == {PyNone, PyStr(""), PyStr("error"), PyStr("debug"), PyStr("verbose")}
TypeVals == {PyNone, PyStr(""), PyStr("primary"), PyStr("secondary"), PyStr("tertiary")}
PolicyVals == {PyNone, PyStr(""), PyStr("reset"), PyStr("stay-off"), PyStr("last-state"),
               PyStr("hibernate")}
DelayTypeVals == {PyNone, PyStr(""), PyStr("fixed"), PyStr("random"), PyStr("linear")}
DelayVals == {PyNone} \cup {PyInt(n) : n \in 0..MaxDelay}

\* one cimc.set_config_modify(dn, inconfig, False) call; inconfig is the XML
\* element with its attributes
Modify(dn, elem, attrs) == [dn |-> dn, elem |-> elem, attrs |-> attrs]

\* the attributes a function adds only for the arguments that are given
Given(a, names) == {p \in names : Truthy(a[p])}

\* the body of a cimc function: raise, or make the one proxy call
CimcCall(fn, err, modify) ==
    /\ CanCall(fn)
    /\ pc' = "idle"
    /\ pre' = Ext
    /\ first' = NoFirst
    /\ ret' = NoRet
    /\ calls' = <<>>
    /\ reported' = PyNone
    /\ UNCHANGED <<dev, db, poll, call, config, queries, value>>
    /\ IF err # ""
       THEN exc' = "CommandExecutionError" /\ proxy' = <<>>
       ELSE exc' = "" /\ proxy' = <<modify>>

ResetOnActivateNever(reset) == "no"

\* r: "yes" only for reset that is the value True itself (`reset is True`)
ResetOnActivate(reset) == IF reset = PyBool(TRUE) THEN "yes" ELSE "no"

\* activate_backup_image has no parameter check: it always makes the call
ActivateBackupImage ==
    LET a == call.kwargs
    IN CimcCall("activate_backup_image", "",
           Modify("sys/rack-unit-1/mgmt/fw-boot-def/bootunit-combined", "firmwareBootUnit",
                  [dn |-> "sys/rack-unit-1/mgmt/fw-boot-def/bootunit-combined",
                   adminState |-> "trigger", image |-> "backup",
                   resetOnActivate |-> ResetOnActivate(a.reset)]))

\* reset defaults to False
ResetVals == {PyBool(FALSE), PyBool(TRUE), PyInt(1), PyStr("yes")}

CreateUserError(a) ==
    IF ~Truthy(a.uid) THEN "The user ID must be specified."
    ELSE IF ~Truthy(a.username) THEN "The username must be specified."
    ELSE IF ~Truthy(a.password) THEN "The password must be specified."
    ELSE IF ~Truthy(a.priv) THEN "The privilege level must be specified."
    ELSE ""

CreateUser ==
    LET a == call.kwargs
    IN CimcCall("create_user", CreateUserError(a),
           Modify("sys/user-ext/user-" \o Fmt(a.uid), "aaaUser",
                  [id |-> Fmt(a.uid), accountStatus |-> "active", name |-> Fmt(a.username),
                   priv |-> Fmt(a.priv), pwd |-> Fmt(a.password),
                   dn |-> "sys/user-ext/user-" \o Fmt(a.uid)]))

SetUserError(a) ==
    IF ~Truthy(a.uid) THEN "The user ID must be specified." ELSE ""

SetUserAttr == [status |-> "accountStatus", username |-> "name", priv |-> "priv",
                password |-> "pwd"]

SetUser ==
    LET a == call.kwargs
        given == Given(a, DOMAIN SetUserAttr)
        conf == [k \in {SetUserAttr[p] : p \in given} |->
                    Fmt(a[CHOOSE p \in given : SetUserAttr[p] = k])]
    IN CimcCall("set_user", SetUserError(a),
           Modify("sys/user-ext/user-" \o Fmt(a.uid), "aaaUser",
                  conf @@ [id |-> Fmt(a.uid), dn |-> "sys/user-ext/user-" \o Fmt(a.uid)]))

MountShareErrorNoFile(a) ==
    IF ~Truthy(a.name) THEN "The share name must be specified."
    ELSE IF ~Truthy(a.remote_share) THEN "The remote share path must be specified."
    ELSE ""

MountShareError(a) ==
    IF ~Truthy(a.name) THEN "The share name must be specified."
    ELSE IF ~Truthy(a.remote_share) THEN "The remote share path must be specified."
    ELSE IF ~Truthy(a.remote_file) THEN "The remote file name must be specified."
    ELSE ""

MountShare ==
    LET a == call.kwargs
        mount_options ==
            IF Truthy(a.username) /\ Truthy(a.password)
            THEN [mountOptions |->
                     "username=" \o Fmt(a.username) \o ",password=" \o Fmt(a.password)]
            ELSE EmptyDict
    IN CimcCall("mount_share", MountShareError(a),
           Modify("sys/svc-ext/vmedia-svc/vmmap-" \o Fmt(a.name), "commVMediaMap",
                  mount_options @@
                  [dn |-> "sys/svc-ext/vmedia-svc/vmmap-" \o Fmt(a.name),
                   map |-> Fmt(a.mount_type), remoteFile |-> Fmt(a.remote_file),
                   remoteShare |-> Fmt(a.remote_share), status |-> "created",
                   volumeName |-> "Win12"]))

SetHostnameError(a) ==
    IF ~Truthy(a.hostname) THEN "Hostname option must be provided." ELSE ""

SetHostname ==
    LET a == call.kwargs
    IN CimcCall("set_hostname", SetHostnameError(a),
           Modify("sys/rack-unit-1/mgmt/if-1", "mgmtIf",
                  [dn |-> "sys/rack-unit-1/mgmt/if-1", hostname |-> Fmt(a.hostname)]))

logging_options ==
    {"emergency", "alert", "critical", "error", "warning", "notice", "informational", "debug"}

SetLoggingLevelsError(a) ==
    IF Truthy(a.remote) /\ Fmt(a.remote) \notin logging_options
    THEN "Remote Severity option is not valid."
    ELSE IF Truthy(a.local) /\ Fmt(a.local) \notin logging_options
    THEN "Local Severity option is not valid."
    ELSE ""

SetLoggingLevels ==
    LET a == call.kwargs
        query == [k \in {IF p = "remote" THEN "remoteSeverity" ELSE "localSeverity" :
                            p \in Given(a, {"remote", "local"})} |->
                     IF k = "remoteSeverity" THEN Fmt(a.remote) ELSE Fmt(a.local)]
    IN CimcCall("set_logging_levels", SetLoggingLevelsError(a),
           Modify("sys/svc-ext/syslog", "commSyslog",
                  query @@ [dn |-> "sys/svc-ext/syslog"]))

SetPowerConfigurationErrorNoDelayCheck(a) ==
    IF a.policy \in {PyStr("reset"), PyStr("stay-off"), PyStr("last-state")}
    THEN ""
    ELSE "The power state must be specified."

SetPowerConfigurationError(a) ==
    IF a.policy = PyStr("reset")
    THEN IF Truthy(a.delayType) /\ a.delayType \notin {PyStr("fixed"), PyStr("random")}
         THEN "Invalid delay type entered."
         ELSE ""
    ELSE IF a.policy \in {PyStr("stay-off"), PyStr("last-state")}
    THEN ""
    ELSE "The power state must be specified."

\* the attributes of `query`
SetPowerConfigurationQuery(a) ==
    IF a.policy = PyStr("reset")
    THEN [vpResumeOnACPowerLoss |-> "reset"] @@
         (IF a.delayType = PyStr("fixed")
          THEN [delayType |-> "fixed"] @@
               (IF Truthy(a.delayValue) THEN [delay |-> Fmt(a.delayValue)] ELSE EmptyDict)
          ELSE IF a.delayType = PyStr("random")
          THEN [delayType |-> "random"]
          ELSE EmptyDict)
    ELSE IF a.policy = PyStr("stay-off")
    THEN [vpResumeOnACPowerLoss |-> "reset"]
    ELSE IF a.policy = PyStr("last-state")
    THEN [vpResumeOnACPowerLoss |-> "last-state"]
    ELSE EmptyDict

SetPowerConfiguration ==
    LET a == call.kwargs
    IN CimcCall("set_power_configuration", SetPowerConfigurationError(a),
           Modify("sys/rack-unit-1/board/Resume-on-AC-power-loss", "biosVfResumeOnACPowerLoss",
                  SetPowerConfigurationQuery(a) @@
                  [dn |-> "sys/rack-unit-1/board/Resume-on-AC-power-loss"]))

SetSyslogServerError(a) ==
    IF ~Truthy(a.server) THEN "The SYSLOG server must be specified."
    ELSE IF a.type \notin {PyStr("primary"), PyStr("secondary")}
    THEN "The SYSLOG type must be either primary or secondary."
    ELSE ""

SetSyslogServer ==
    LET a == call.kwargs
    IN CimcCall("set_syslog_server", SetSyslogServerError(a),
           Modify("sys/svc-ext/syslog/client-" \o Fmt(a.type), "commSyslogClient",
                  [name |-> Fmt(a.type), adminState |-> "enabled", hostname |-> Fmt(a.server),
                   dn |-> "sys/svc-ext/syslog/client-" \o Fmt(a.type)]))

TftpUpdateError(a) ==
    IF ~Truthy(a.server) THEN "The server name must be specified."
    ELSE IF ~Truthy(a.path) THEN "The TFTP path must be specified."
    ELSE ""

TftpUpdate(fn, dn, type) ==
    LET a == call.kwargs
    IN CimcCall(fn, TftpUpdateError(a),
           Modify(dn, "firmwareUpdatable",
                  [adminState |-> "trigger", dn |-> dn, protocol |-> "tftp",
                   remoteServer |-> Fmt(a.server), remotePath |-> Fmt(a.path),
                   type |-> type]))

TftpUpdateBios == TftpUpdate("tftp_update_bios", "sys/rack-unit-1/bios/fw-updatable", "blade-bios")

TftpUpdateCimc ==
    TftpUpdate("tftp_update_cimc", "sys/rack-unit-1/mgmt/fw-updatable", "blade-controller")

\* what cimc.get_config_resolver_class("mgmtIf", True) may return
ResolverResults ==
    {EmptyDict,
     [outConfigs |-> EmptyDict],
     [outConfigs |-> [mgmtIf |-> <<>>]],
     [outConfigs |-> [mgmtIf |-> <<EmptyDict>>]],
     [outConfigs |-> [mgmtIf |-> <<[hostname |-> "cimc-1"]>>]],
     [outConfigs |-> [mgmtIf |-> <<[hostname |-> "cimc-1"], [hostname |-> "cimc-2"]>>]]}

\* ret["outConfigs"]["mgmtIf"][0]["hostname"] can be evaluated
HasHostname(r) ==
    /\ "outConfigs" \in DOMAIN r
    /\ "mgmtIf" \in DOMAIN r.outConfigs
    /\ Len(r.outConfigs.mgmtIf) > 0
    /\ "hostname" \in DOMAIN r.outConfigs.mgmtIf[1]

\* what the try / except returns
HostnameOrFallback(r) ==
    IF HasHostname(r)
    THEN PyStr(r.outConfigs.mgmtIf[1].hostname)
    ELSE PyStr("Unable to retrieve hostname")

\* the proxy read is made before the try: what it raises leaves the function
GetHostnameError(raised) == IF raised THEN "CommandExecutionError" ELSE ""

\* raised: the proxy read raises; r: what it returns when it does not
GetHostname(raised, r) ==
    /\ CanCall("get_hostname")
    /\ pc' = "idle"
    /\ pre' = Ext
    /\ first' = NoFirst
    /\ ret' = NoRet
    /\ calls' = <<>>
    /\ proxy' = <<>>
    /\ reported' = [raised |-> raised, out |-> IF raised THEN EmptyDict ELSE r]
    /\ UNCHANGED <<dev, db, poll, call, config, queries>>
    /\ exc' = GetHostnameError(raised)
    /\ value' = IF GetHostnameError(raised) # "" THEN PyNone ELSE HostnameOrFallback(r)

CimcCalls ==
    LET C(fn, argsets) == {[NoCall EXCEPT !.fn = fn, !.kwargs = a] : a \in argsets}
    IN C("create_user", [uid : UidVals, username : StrVals, password : StrVals, priv : StrVals])
       \cup C("set_user", [uid : UidVals, username : OptVals, password : OptVals,
                           priv : OptVals, status : OptVals])
       \cup C("mount_share", [name : StrVals, remote_share : StrVals, remote_file : StrVals,
                              mount_type : {PyStr("nfs")}, username : OptVals,
                              password : OptVals])
       \cup C("set_hostname", [hostname : StrVals])
       \cup C("set_logging_levels", [remote : LevelVals, local : LevelVals])
       \cup C("set_power_configuration",
              [policy : PolicyVals, delayType : DelayTypeVals, delayValue : DelayVals])
       \cup C("set_syslog_server", [server : StrVals, type : TypeVals])
       \cup C("tftp_update_bios", [server : StrVals, path : StrVals])
       \cup C("tftp_update_cimc", [server : StrVals, path : StrVals])
       \cup C("get_hostname", {EmptyDict})
       \cup C("activate_backup_image", [reset : ResetVals])

----------------------------------------------------------------------------
(* mattermost.post_message                                                 *)

Items == {"api_url", "hook", "username", "channel"}

\* the two spellings a setting is looked up under
Flat(item) == "mattermost." \o item
Nested(item) == "mattermost:" \o item

\* the minion configurations: any of the eight keys may be set
Configs ==
    {[k \in S |-> PyStr(k \o "=set")] :
        S \in SUBSET ({Flat(i) : i \in Items} \cup {Nested(i) : i \in Items})}

\* __salt__["config.get"](key): the value, "" when the key is not set
ConfigGet(key) == IF key \in DOMAIN config THEN config[key] ELSE PyStr("")

\* `a or b`
PyOr(a, b) == IF Truthy(a) THEN a ELSE b

\* the value _get_hook, _get_api_url, _get_channel and _get_username look up
GetConfigured(item) == PyOr(ConfigGet(Flat(item)), ConfigGet(Nested(item)))

UseConfigured(item, arg) == GetConfigured(item)

\* `if not x: x = _get_x()`
ArgOrConfigured(item, arg) == IF ~Truthy(arg) THEN GetConfigured(item) ELSE arg

\* what post_message raises, "" when it goes on to post: an empty message is
\* only logged, and the concatenation of the delimiter and message fails for a
\* message that is no string
PostMessageError(a) ==
    IF ~Truthy(ArgOrConfigured("api_url", a.api_url)) THEN "No Mattermost API URL found"
    ELSE IF ~Truthy(ArgOrConfigured("hook", a.hook)) THEN "No Mattermost Hook found"
    ELSE IF a.message.t # "str" THEN "can only concatenate str"
    ELSE ""

\* the delimiter put on both sides of the message: three backquote characters
\* (ASCII 96), which a TLA+ string cannot hold and is written <bq><bq><bq> here
Fence == "<bq><bq><bq>"

\* salt.utils.json.dumps of a dict of strings, given as its items in order
RECURSIVE JsonItems(_)
JsonItems(items) ==
    IF items = <<>> THEN ""
    ELSE "\"" \o items[1][1] \o "\": \"" \o items[1][2] \o "\""
         \o (IF Len(items) > 1 THEN ", " ELSE "") \o JsonItems(Tail(items))

JsonDumps(items) == "{" \o JsonItems(items) \o "}"

\* `parameters`, as its items in insertion order
PostMessageParameters(a) ==
    LET channel == ArgOrConfigured("channel", a.channel)
        username == ArgOrConfigured("username", a.username)
    IN (IF Truthy(channel) THEN << <<"channel", Fmt(channel)>> >> ELSE <<>>)
       \o (IF Truthy(username) THEN << <<"username", Fmt(username)>> >> ELSE <<>>)
       \o << <<"text", Fence \o Fmt(a.message) \o Fence>> >>

\* one salt.utils.mattermost.query(api_url=, hook=, data=) call
Query(api_url, hook, data) == [api_url |-> api_url, hook |-> hook, data |-> data]

\* result is what salt.utils.mattermost.query returns
PostMessage(result) ==
    LET a == call.kwargs
        err == PostMessageError(a)
    IN /\ CanCall("post_message")
       /\ pc' = "idle"
       /\ pre' = Ext
       /\ first' = NoFirst
       /\ ret' = NoRet
       /\ calls' = <<>>
       /\ proxy' = <<>>
       /\ reported' = PyNone
       /\ UNCHANGED <<dev, db, poll, call, config>>
       /\ IF err # ""
          THEN /\ exc' = (IF err = "can only concatenate str"
                          THEN "TypeError" ELSE "SaltInvocationError")
               /\ queries' = <<>>
               /\ value' = PyNone
          ELSE /\ exc' = ""
               /\ queries' = <<Query(Fmt(ArgOrConfigured("api_url", a.api_url)),
                                     Fmt(ArgOrConfigured("hook", a.hook)),
                                     "payload=" \o JsonDumps(PostMessageParameters(a)))>>
               /\ value' = PyBool(result)

MessageVals == {PyNone, PyStr(""), PyStr("Build is done")}

PostMessageCalls ==
    {[NoCall EXCEPT !.fn = "post_message", !.kwargs = a] :
        a \in [message : MessageVals,
               channel : {PyNone, PyStr("channel-arg")},
               username : {PyNone, PyStr("username-arg")},
               api_url : {PyNone, PyStr("api_url-arg")},
               hook : {PyNone, PyStr("hook-arg")}]}

----------------------------------------------------------------------------
(* The specification.                                                      *)

DefaultDev == [kind |-> "blk", fs |-> "", flags |-> DefaultFlags]
DefaultDb == [c \in Conns |-> FALSE]
DefaultConfig == EmptyDict

TunedCalls ==
    {[NoCall EXCEPT !.fn = "tuned", !.test = t, !.kwargs = k] :
        t \in BOOLEAN, k \in KwargSets}
FormattedCalls ==
    {[NoCall EXCEPT !.fn = "formatted", !.test = t, !.fs_type = f] :
        t \in BOOLEAN, f \in FsTypes}
DbCalls ==
    {[NoCall EXCEPT !.fn = fn, !.test = t, !.conn = c] :
        fn \in {"present", "absent"}, t \in BOOLEAN, c \in Conns}

\* Init draws the call and the part of the world the called module works on;
\* the rest of the world is left at a default
Init ==
    /\ call \in TunedCalls \cup FormattedCalls \cup DbCalls \cup CimcCalls
                \cup PostMessageCalls
    /\ dev \in [kind : Kinds, fs : FsStates, flags : FlagStates]
    /\ dev.kind = "missing" => dev.fs = ""
    /\ call.fn # "tuned" => dev.flags = DefaultFlags
    /\ call.fn # "formatted" => dev.fs = ""
    /\ call.fn \notin {"tuned", "formatted"} => dev = DefaultDev
    /\ db \in [Conns -> BOOLEAN]
    /\ call.fn \notin {"present", "absent"} => db = DefaultDb
    /\ pc = "new"
    /\ poll = [i |-> 0, sleeps |-> 0]
    /\ ret = NoRet
    /\ exc = ""
    /\ calls = <<>>
    /\ pre = Ext
    /\ first = NoFirst
    /\ proxy = <<>>
    /\ reported = PyNone
    /\ config \in Configs
    /\ call.fn # "post_message" => config = DefaultConfig
    /\ queries = <<>>
    /\ value = PyNone

Next ==
    \/ \E out \in TuneResults : Tuned(out)
    \/ FormattedCall
    \/ \E seen \in FsStates : FormattedPoll(seen)
    \/ \E r \in CreateResults, effect \in BOOLEAN : Present(r, effect)
    \/ \E r \in RemoveResults, effect \in BOOLEAN : Absent(r, effect)
    \/ ActivateBackupImage
    \/ CreateUser
    \/ SetUser
    \/ MountShare
    \/ SetHostname
    \/ SetLoggingLevels
    \/ SetPowerConfiguration
    \/ SetSyslogServer
    \/ TftpUpdateBios
    \/ TftpUpdateCimc
    \/ \E raised \in BOOLEAN, r \in ResolverResults : GetHostname(raised, r)
    \/ \E result \in BOOLEAN : PostMessage(result)

Spec == Init /\ [][Next]_vars

\* a call of formatted that has begun goes on: the loop is straight-line code
\* around calls that return
FairSpec == Spec /\ WF_vars(\E seen \in FsStates : FormattedPoll(seen))

----------------------------------------------------------------------------
(* What the claims speak of.                                               *)

StateFns == {"tuned", "formatted", "present", "absent"}

\* the last call has ended (returned or raised)
Ended == pc = "idle"

\* the last call invoked an apply function
Applied == \E i \in 1..Len(calls) : calls[i].f \in ApplyFns

\* the flag value a declared option value stands for, "" when it stands for none
Desired(key, val) ==
    CASE key = "read-only" /\ IsBool(val) -> (IF val.b THEN "1" ELSE "0")
      [] key = "read-write" /\ IsBool(val) -> (IF val.b THEN "0" ELSE "1")
      [] key \in {"read-ahead", "filesystem-read-ahead"} /\ ~IsBool(val) -> Fmt(val)
      [] OTHER -> ""

\* the declared state of call c holds in the world e
Satisfied(e, c) ==
    CASE c.fn = "tuned" ->
            /\ e.dev.kind = "blk"
            /\ \A key \in TunedKeys(c.kwargs) :
                  e.dev.flags[kwarg_map[key]] = Desired(key, c.kwargs[key])
      [] c.fn = "formatted" -> PathExists(e.dev) /\ Checkblk(e.dev) = c.fs_type
      [] c.fn = "present" -> e.db[c.conn]
      [] c.fn = "absent" -> ~e.db[c.conn]
      [] OTHER -> FALSE

\* the call declares something: a tuned call names at least one option of
\* kwarg_map, each with a value that stands for a flag value
Declares(c) ==
    c.fn = "tuned" =>
        /\ TunedKeys(c.kwargs) # {}
        /\ \A key \in TunedKeys(c.kwargs) : Desired(key, c.kwargs[key]) # ""

\* C1: in dry-run mode (__opts__["test"] true) a state function never invokes
\* its apply function (disk.tune, disk.format, mssql.db_create, mssql.db_remove),
\* and the device and the databases are as they were before the call.
C1_DryRunNeverApplies ==
    (call.fn \in StateFns /\ call.test) => (~Applied /\ Ext = pre)

C1_Witness ==
    /\ Ended /\ call.test /\ call.fn = "formatted"
    /\ ret.result = PyNone /\ ~Satisfied(pre, call)

\* C2 as stated: in dry-run mode a state function called when the declared
\* state is not satisfied returns result None with empty changes, whatever the
\* world is (a missing device path and a type without mkfs tool included).
C2_Original ==
    (Ended /\ call.fn \in StateFns /\ Declares(call) /\ call.test
        /\ ~Satisfied(pre, call)) =>
        (exc = "" /\ ret.result = PyNone /\ IsEmpty(ret.changes))

\* C2 as amended: in dry-run mode the changes are always empty; tuned returns
\* None; present returns None when the database is missing on its connection;
\* absent returns None when the database exists on the connection its check is
\* made on; formatted returns None when the path exists, its type differs from
\* fs_type and mkfs.<fs_type> is found, and returns False when the path does
\* not exist or, the type differing, no mkfs.<fs_type> is found.
C2_DryRunResult ==
    (Ended /\ call.fn \in StateFns /\ call.test) =>
        /\ exc = ""
        /\ IsEmpty(ret.changes)
        /\ call.fn = "tuned" => ret.result = PyNone
        /\ (call.fn = "present" /\ ~pre.db[call.conn]) => ret.result = PyNone
        /\ (call.fn = "absent" /\ pre.db[AbsentCheckConn(call.conn)]) => ret.result = PyNone
        /\ (call.fn = "formatted" /\ PathExists(pre.dev)
              /\ Checkblk(pre.dev) # call.fs_type /\ call.fs_type \in MkfsTools)
            => ret.result = PyNone
        /\ (call.fn = "formatted"
              /\ (~PathExists(pre.dev)
                    \/ (Checkblk(pre.dev) # call.fs_type /\ call.fs_type \notin MkfsTools)))
            => ret.result = PyBool(FALSE)

C2_Witness ==
    /\ Ended /\ call.test /\ call.fn = "formatted"
    /\ ~PathExists(pre.dev) /\ ret.result = PyBool(FALSE)

\* C3 as stated: when the world already is as declared, a state function that
\* returns, returns result True with empty changes and invokes no apply function, in
\* normal and in dry-run mode.
C3_Original ==
    (Ended /\ exc = "" /\ call.fn \in StateFns /\ Declares(call) /\ Satisfied(pre, call)) =>
        (ret.result = PyBool(TRUE) /\ IsEmpty(ret.changes) /\ ~Applied)

\* C4 as stated: outside dry-run mode, a call that follows a successful call
\* with the same arguments, nothing else having touched the world, returns
\* (when it returns) result True with empty changes.
C4_Original ==
    (Ended /\ exc = "" /\ call.fn \in StateFns /\ Declares(call) /\ ~call.test
        /\ first.valid /\ first.ok) =>
        (ret.result = PyBool(TRUE) /\ IsEmpty(ret.changes))

\* C5 as stated: after an apply outside dry-run mode, the result returned is True only if
\* the world then is as declared, and whenever it is not, the function
\* returns result False with a comment.
C5_Original ==
    (Ended /\ exc = "" /\ call.fn \in StateFns /\ Declares(call) /\ ~call.test
        /\ Applied) =>
        /\ ret.result = PyBool(TRUE) => Satisfied(Ext, call)
        /\ ~Satisfied(Ext, call) => (ret.result = PyBool(FALSE) /\ ret.comment # "")

\* C6 as stated: when formatted succeeds in formatting, changes has old equal
\* to the type read before disk.format and new equal to fs_type, and they differ.
C6_Original ==
    (Ended /\ call.fn = "formatted" /\ exc = "" /\ ~IsEmpty(ret.changes)) =>
        /\ ret.changes.old = Checkblk(pre.dev)
        /\ ret.changes.new = call.fs_type
        /\ ret.changes.old # ret.changes.new

\* C7 as stated: for a read-write declaration of any type, no change is
\* reported when the read-only flag is the same before and after the tune,
\* and a reported change has old and new equal to the negations of the
\* read-only flag before and after, so that they differ.
C7_Original ==
    (Ended /\ call.fn = "tuned" /\ ~call.test /\ exc = ""
        /\ "read-write" \in DOMAIN call.kwargs) =>
        LET before == pre.dev.flags.getro
            after == dev.flags.getro
        IN /\ before = after => "read-write" \notin DOMAIN ret.changes
           /\ "read-write" \in DOMAIN ret.changes =>
                 /\ ret.changes["read-write"] =
                       "Changed from " \o Fmt(PyBool(before # "1"))
                       \o " to " \o Fmt(PyBool(after # "1"))
                 /\ Fmt(PyBool(before # "1")) # Fmt(PyBool(after # "1"))

BoolEntries ==
    {"Changed from " \o x \o " to " \o y : x \in {"True", "False"}, y \in {"True", "False"}}

\* C8 as stated: a declared boolean is compared with the normalized current
\* flag, so read-only declared True with flag "1" (or False with "0") yields
\* no change entry, and every entry of a boolean-declared option reports old
\* and new as booleans.
C8_Original ==
    (Ended /\ call.fn = "tuned" /\ ~call.test /\ exc = "") =>
        \A key \in TunedKeys(call.kwargs) :
            IsBool(call.kwargs[key]) =>
                /\ (key = "read-only"
                      /\ pre.dev.flags.getro = Desired(key, call.kwargs[key]))
                    => key \notin DOMAIN ret.changes
                /\ key \in DOMAIN ret.changes => ret.changes[key] \in BoolEntries

CimcError == "CommandExecutionError"

\* an argument that is missing (None) or empty
Missing(v) == v = PyNone \/ v = PyStr("")

Required ==
    [create_user |-> {"uid", "username", "password", "priv"},
     set_user |-> {"uid"},
     mount_share |-> {"name", "remote_share", "remote_file"},
     set_hostname |-> {"hostname"},
     set_syslog_server |-> {"server"},
     tftp_update_bios |-> {"server", "path"},
     tftp_update_cimc |-> {"server", "path"}]

\* C9: a cimc function called with one of its required parameters missing or
\* empty raises CommandExecutionError and makes no cimc.set_config_modify call.
C9_MissingParameterRaises ==
    (Ended /\ call.fn \in DOMAIN Required
        /\ \E p \in Required[call.fn] : Missing(call.kwargs[p])) =>
        (exc = CimcError /\ proxy = <<>>)

C9_Witness ==
    /\ Ended /\ call.fn = "mount_share"
    /\ Truthy(call.kwargs.name) /\ Truthy(call.kwargs.remote_share)
    /\ Missing(call.kwargs.remote_file)
    /\ exc = CimcError /\ proxy = <<>>

AllowedLevels ==
    {"emergency", "alert", "critical", "error", "warning", "notice", "informational", "debug"}
AllowedPolicies == {PyStr("reset"), PyStr("stay-off"), PyStr("last-state")}
AllowedDelayTypes == {PyStr("fixed"), PyStr("random")}

\* a value is given and is none of the allowed ones
InvalidLevel(v) == Truthy(v) /\ Fmt(v) \notin AllowedLevels
InvalidDelayType(v) == Truthy(v) /\ v \notin AllowedDelayTypes

\* C10 as stated: an invalid level of set_logging_levels, a type of
\* set_syslog_server other than primary or secondary, and a policy of
\* set_power_configuration outside the three allowed or, for any policy, a
\* delayType outside fixed and random, raise CommandExecutionError with no
\* cimc.set_config_modify call.
C10_Original ==
    (Ended /\
        \/ /\ call.fn = "set_logging_levels"
           /\ InvalidLevel(call.kwargs.remote) \/ InvalidLevel(call.kwargs.local)
        \/ /\ call.fn = "set_syslog_server"
           /\ call.kwargs.type \notin {PyStr("primary"), PyStr("secondary")}
        \/ /\ call.fn = "set_power_configuration"
           /\ \/ call.kwargs.policy \notin AllowedPolicies
              \/ InvalidDelayType(call.kwargs.delayType)) =>
        (exc = CimcError /\ proxy = <<>>)

\* C10 as amended: the same, but a delayType outside fixed and random raises
\* only with policy reset (with stay-off and last-state delayType is not read).
C10_InvalidOptionRaises ==
    (Ended /\
        \/ /\ call.fn = "set_logging_levels"
           /\ InvalidLevel(call.kwargs.remote) \/ InvalidLevel(call.kwargs.local)
        \/ /\ call.fn = "set_syslog_server"
           /\ call.kwargs.type \notin {PyStr("primary"), PyStr("secondary")}
        \/ /\ call.fn = "set_power_configuration"
           /\ \/ call.kwargs.policy \notin AllowedPolicies
              \/ /\ call.kwargs.policy = PyStr("reset")
                 /\ InvalidDelayType(call.kwargs.delayType)) =>
        (exc = CimcError /\ proxy = <<>>)

C10_Witness ==
    /\ Ended /\ call.fn = "set_power_configuration"
    /\ call.kwargs.policy = PyStr("reset") /\ call.kwargs.delayType = PyStr("linear")
    /\ exc = CimcError /\ proxy = <<>>

\* a setting of mattermost is configured under one of its two spellings
IsConfigured(item) == {Flat(item), Nested(item)} \cap DOMAIN config # {}

\* C11 as stated: post_message called with an empty message, or with api_url
\* or hook neither passed nor configured, raises and makes no
\* salt.utils.mattermost.query call.
C11_Original ==
    (Ended /\ call.fn = "post_message" /\
        \/ Missing(call.kwargs.message)
        \/ ~Truthy(call.kwargs.api_url) /\ ~IsConfigured("api_url")
        \/ ~Truthy(call.kwargs.hook) /\ ~IsConfigured("hook")) =>
        (exc # "" /\ queries = <<>>)

\* the apply function the last call invoked reported failure: disk.tune
\* returned an empty result, mssql.db_create anything but True, mssql.db_remove
\* a false value, or no check after disk.format saw fs_type
ApplyFailed ==
    /\ Applied
    /\ CASE call.fn = "tuned" -> IsEmpty(reported)
         [] call.fn = "present" -> reported # PyBool(TRUE)
         [] call.fn = "absent" -> ~Truthy(reported)
         [] call.fn = "formatted" -> Checkblk(dev) # call.fs_type
         [] OTHER -> FALSE

\* C12 as stated: when the apply function of a state function reports failure,
\* the state function returns (it does not raise) result False with a
\* non-empty comment and empty changes (for tuned, on a block device).
C12_Original ==
    (Ended /\ call.fn \in StateFns /\ ApplyFailed
        /\ (call.fn = "tuned" => pre.dev.kind = "blk")) =>
        (exc = "" /\ ret.result = PyBool(FALSE) /\ ret.comment # ""
            /\ IsEmpty(ret.changes))

\* C13 as stated: get_hostname never raises: when the proxy read raises, or
\* returns a result without outConfigs / mgmtIf / hostname, it returns
\* 'Unable to retrieve hostname', and otherwise the hostname of the first
\* mgmtIf entry.
C13_Original ==
    (Ended /\ call.fn = "get_hostname") =>
        /\ exc = ""
        /\ value = IF ~reported.raised /\ HasHostname(reported.out)
                   THEN PyStr(reported.out.outConfigs.mgmtIf[1].hostname)
                   ELSE PyStr("Unable to retrieve hostname")

\* the checks formatted has made after disk.format
ChecksAfterFormat == Len(SelectSeq(calls, LAMBDA c : c = Blkid)) - 1

\* C14: formatted terminates: after its one disk.format call it checks the
\* type at most 10 times, sleeps only after a check that returned an empty
\* type (at most 10 sleeps), stops at once with result False when a check
\* returns another non-empty type, returns success as soon as a check returns
\* fs_type, and returns result False 'Failed to format' when none does.
C14_FormattedTerminates ==
    /\ [](call.fn = "formatted" =>
            /\ Len(SelectSeq(calls, LAMBDA c : c.f = "disk.format")) <= 1
            /\ Applied => (ChecksAfterFormat = poll.i /\ poll.i <= MaxPolls)
            /\ poll.sleeps <= poll.i /\ poll.sleeps <= MaxPolls
            /\ pc = "polling" =>
                  (poll.i < MaxPolls /\ poll.sleeps = poll.i /\ (poll.i > 0 => dev.fs = ""))
            /\ (Ended /\ Applied /\ dev.fs = call.fs_type) =>
                  ret.result = PyBool(TRUE)
            /\ (Ended /\ Applied /\ dev.fs # call.fs_type) =>
                  (ret.result = PyBool(FALSE) /\ ret.comment = "Failed to format " \o Name))
    /\ [][pc = "polling" =>
            /\ poll'.sleeps > poll.sleeps => dev'.fs = ""
            /\ dev'.fs # "" => pc' = "idle"]_vars
    /\ (pc = "polling" ~> pc = "idle")

C14_Witness ==
    /\ Ended /\ call.fn = "formatted" /\ Applied
    /\ poll.i = MaxPolls /\ poll.sleeps = MaxPolls
    /\ ret.result = PyBool(FALSE)

\* C15: every return of tuned, formatted, present and absent is a record of
\* name (the name argument), result (True, False or None), comment and
\* changes, where result is None only in dry-run mode and changes is non-empty
\* only with result True outside dry-run mode.
C15_ReturnRecord ==
    (Ended /\ call.fn \in StateFns /\ exc = "") =>
        /\ DOMAIN ret = {"name", "result", "comment", "changes"}
        /\ ret.name = (IF call.fn \in {"tuned", "formatted"} THEN Name ELSE DbName)
        /\ ret.result \in {PyBool(TRUE), PyBool(FALSE), PyNone}
        /\ ret.result = PyNone => call.test
        /\ ~IsEmpty(ret.changes) => (ret.result = PyBool(TRUE) /\ ~call.test)

C15_Witness ==
    /\ Ended /\ call.fn = "present" /\ exc = "" /\ ~call.test
    /\ ~IsEmpty(ret.changes) /\ ret.result = PyBool(TRUE)

\* C16: activate_backup_image makes exactly one cimc.set_config_modify call,
\* on dn sys/rack-unit-1/mgmt/fw-boot-def/bootunit-combined, with
\* adminState 'trigger', image 'backup' and resetOnActivate 'no' when called
\* without argument (reset False) and 'yes' when called with reset=True.
C16_ActivateBackupImagePayload ==
    (Ended /\ call.fn = "activate_backup_image"
        /\ call.kwargs.reset \in {PyBool(FALSE), PyBool(TRUE)}) =>
        /\ exc = ""
        /\ Len(proxy) = 1
        /\ proxy[1].dn = "sys/rack-unit-1/mgmt/fw-boot-def/bootunit-combined"
        /\ proxy[1].attrs.adminState = "trigger"
        /\ proxy[1].attrs.image = "backup"
        /\ proxy[1].attrs.resetOnActivate =
              (IF call.kwargs.reset = PyBool(TRUE) THEN "yes" ELSE "no")

C16_Witness ==
    /\ Ended /\ call.fn = "activate_backup_image" /\ call.kwargs.reset = PyBool(TRUE)
    /\ Len(proxy) = 1 /\ proxy[1].attrs.resetOnActivate = "yes"

\* the values a setting of post_message may take by the claim: the one passed,
\* and when none is passed the configured ones
Choices(item) ==
    IF Truthy(call.kwargs[item])
    THEN {call.kwargs[item].s}
    ELSE {config[k].s : k \in {Flat(item), Nested(item)} \cap DOMAIN config}

\* the text of a key of the JSON object: nothing when the setting has no value
KeyText(item) ==
    IF Choices(item) = {}
    THEN {""}
    ELSE {"\"" \o item \o "\": \"" \o v \o "\", " : v \in Choices(item)}

\* C17: post_message with a message, and with hook and api_url passed or
\* configured, makes one query whose data is 'payload=' and a JSON object with
\* text equal to the message between two delimiters, with the channel key iff
\* a channel is passed or configured and the username key iff a username is,
\* and a passed api_url, hook, channel or username is used instead of the
\* configured one.
C17_PostMessagePayload ==
    (Ended /\ call.fn = "post_message" /\ Truthy(call.kwargs.message)
        /\ Choices("hook") # {} /\ Choices("api_url") # {}) =>
        /\ exc = ""
        /\ Len(queries) = 1
        /\ queries[1].api_url \in Choices("api_url")
        /\ queries[1].hook \in Choices("hook")
        /\ queries[1].data \in
              {"payload={" \o c \o u \o "\"text\": \"" \o Fence \o call.kwargs.message.s
                  \o Fence \o "\"}" : c \in KeyText("channel"), u \in KeyText("username")}

C17_Witness ==
    /\ Ended /\ call.fn = "post_message" /\ call.kwargs.message = PyStr("Build is done")
    /\ call.kwargs.channel = PyStr("channel-arg") /\ IsConfigured("channel")
    /\ call.kwargs.username = PyNone /\ ~IsConfigured("username")
    /\ call.kwargs.hook = PyNone /\ IsConfigured("hook")
    /\ Len(queries) = 1
    /\ queries[1].data =
          "payload={\"channel\": \"channel-arg\", \"text\": \"" \o Fence \o "Build is done"
          \o Fence \o "\"}"

\* C18 as stated: for each accepted policy of set_power_configuration (reset,
\* stay-off, last-state) the vpResumeOnACPowerLoss attribute sent to the
\* device equals the policy asked for.
C18_Original ==
    (Ended /\ call.fn = "set_power_configuration" /\ exc = ""
        /\ call.kwargs.policy \in AllowedPolicies) =>
        /\ Len(proxy) = 1
        /\ proxy[1].attrs.vpResumeOnACPowerLoss = call.kwargs.policy.s

\* C19 as stated: with policy reset and delayType fixed the payload has a
\* delay attribute equal to delayValue for every integer delayValue from 0 to
\* 240, and it has no delay attribute when delayType is random or not given.
C19_Original ==
    (Ended /\ call.fn = "set_power_configuration" /\ exc = ""
        /\ call.kwargs.policy = PyStr("reset")) =>
        /\ Len(proxy) = 1
        /\ (call.kwargs.delayType = PyStr("fixed") /\ call.kwargs.delayValue.t = "int"
              /\ call.kwargs.delayValue.n \in 0..240) =>
              /\ "delay" \in DOMAIN proxy[1].attrs
              /\ proxy[1].attrs.delay = ToString(call.kwargs.delayValue.n)
        /\ (call.kwargs.delayType = PyStr("random") \/ ~Truthy(call.kwargs.delayType)) =>
              "delay" \notin DOMAIN proxy[1].attrs

\* C20 as stated: outside dry-run mode, tuned called for a name that is not a
\* block device invokes neither disk.dump nor disk.tune, returns the comment
\* 'Changes to <name> cannot be applied. Not a block device.' with empty
\* changes, and leaves the device as it was.
C20_Original ==
    (Ended /\ call.fn = "tuned" /\ ~call.test /\ pre.dev.kind # "blk") =>
        /\ \A i \in 1..Len(calls) : calls[i].f \notin {"disk.dump", "disk.tune"}
        /\ exc = ""
        /\ ret.comment \in
              {"Changes to " \o Name \o " cannot be applied. Not a block device.",
               "Changes to " \o Name \o " cannot be applied. Not a block device. "}
        /\ IsEmpty(ret.changes)
        /\ dev = pre.dev

\* C21 as stated: present and absent make their existence check
\* (mssql.db_exists) on the connection their apply call (mssql.db_create,
\* mssql.db_remove) is made on, the one the connection arguments name, so
\* absent reports 'is not present' only when the database is missing on the
\* server it would remove from.
C21_Original ==
    (Ended /\ call.fn \in {"present", "absent"}) =>
        /\ \A i \in 1..Len(calls) : calls[i].conn = call.conn
        /\ (call.fn = "absent" /\ ret.comment = "Database " \o DbName \o " is not present")
              => ~pre.db[call.conn]

====
